---------------------------- MODULE Spec2Model ----------------------------
(***************************************************************************)
(* A model of arc/reaction.py (class ARCReaction): the reaction record,    *)
(* its label / reactants / products derivation, the reaction-surface       *)
(* multiplicity table and the atom-balance check run by the constructor.   *)
(*                                                                         *)
(* A Python str is a sequence of one-character strings.  The three         *)
(* characters "<=>" are written as the single symbol "~": the code only    *)
(* ever searches for the whole of ' <=> ' or '<=>', so a part of "<=>"     *)
(* behaves like any other letter.                                          *)
(*                                                                         *)
(* A method is an operator from the object's state (a record, self) to     *)
(* [self |-> the state it leaves, exc |-> the exception it raises or       *)
(* "none", ...]; an exception ends the callers too.                        *)
(***************************************************************************)
EXTENDS Integers, Sequences, FiniteSets, TLC

VARIABLES
    args,   \* the arguments of the constructor call / the inputs of the run
    self,   \* the ARCReaction object (its attributes)
    self2,  \* a second ARCReaction object, built from the first one's label
    exc,    \* the exception the last operation raised, or "none"
    log,    \* the logger records of the last operation, <<level, text>>
    ret,    \* what the last operation returned
    pc      \* the last operation performed

vars == <<args, self, self2, exc, log, ret, pc>>

---------------------------------------------------------------------------
(* Python values *)

\* None where a list of labels is expected (reactants, products)
NoneList == << <<"None">> >>
\* None where an xyz / a mol is expected
NoneXyz == <<"None">>
\* None where a multiplicity is expected
NoneInt == 0
\* None where an RMG Reaction is expected
NoneReaction == [present |-> FALSE, reactants |-> <<>>, products |-> <<>>]
\* A multiplicity argument that is not an int (line 119)
NotAnInt == -1

arrow == <<" ", "~", " ">>
plus == <<" ", "+", " ">>
arrow_bare == <<"~">>

\* the cap of line 133
MaxSpecies == 3

---------------------------------------------------------------------------
(* str methods *)

\* The element of a set of one element.  The({e : x \in {v}}) is e with x
\* the value of v: v is computed once, as a local variable assigned once is.
The(S) == CHOOSE y \in S : TRUE

\* sub occurs in s at position i (1-based)
MatchAt(s, sub, i) ==
    /\ i >= 1
    /\ i + Len(sub) - 1 <= Len(s)
    /\ \A k \in 1..Len(sub) : s[i + k - 1] = sub[k]

\* str.find: the least position of sub in s at or after from, 0 when none
Find(s, sub, from) ==
    The({ The({ IF hits = {} THEN 0 ELSE CHOOSE i \in hits : \A j \in hits : i <= j
                : hits \in {{i \in from..(Len(str) - Len(pat) + 1) : MatchAt(str, pat, i)}} })
          : str \in {s}, pat \in {sub} })

\* sub in s
Contains(s, sub) == Find(s, sub, 1) /= 0

StartsWith(s, sub) == The({MatchAt(str, pat, 1) : str \in {s}, pat \in {sub}})

EndsWith(s, sub) ==
    The({MatchAt(str, pat, Len(str) - Len(pat) + 1) : str \in {s}, pat \in {sub}})

\* str.split(sep): the pieces between the non-overlapping occurrences of
\* sep, found from the left
RECURSIVE Split(_, _)
Split(s, sep) ==
    The({ The({ IF i = 0 THEN <<str>>
                ELSE <<SubSeq(str, 1, i - 1)>>
                         \o Split(SubSeq(str, i + Len(sep), Len(str)), sep)
                : i \in {Find(str, sep, 1)} })
          : str \in {s} })

\* str.count(sub): the number of non-overlapping occurrences, from the left
RECURSIVE Count(_, _)
Count(s, sub) ==
    The({ The({ IF i = 0 THEN 0
                ELSE 1 + Count(SubSeq(str, i + Len(pat), Len(str)), pat)
                : i \in {Find(str, pat, 1)} })
          : str \in {s}, pat \in {sub} })

\* sep.join(parts)
RECURSIVE Join(_, _)
Join(parts, sep) ==
    The({ IF Len(l) = 0 THEN <<>>
          ELSE IF Len(l) = 1 THEN l[1]
          ELSE l[1] \o sep \o Join(Tail(l), sep)
          : l \in {parts} })

\* [x.label for x in species]
Labels(species) == [i \in 1..Len(species) |-> species[i].label]

\* the truth value of a label: a non-empty string
Truthy(s) == Len(s) > 0

Ok(obj) == [self |-> obj, exc |-> "none"]
Raise(obj, e) == [self |-> obj, exc |-> e]

---------------------------------------------------------------------------
(* The species the reaction uses (arc.species.species, rmgpy.species).     *)
(* A species is [label, multiplicity, charge, xyz, mol]: xyz the stored    *)
(* geometry and mol the structure, each the sequence of its atoms'         *)
(* element symbols or NoneXyz.  An optional species (ts_species) is a      *)
(* sequence of zero or one species.                                        *)

Range(f) == {f[i] : i \in DOMAIN f}

\* ARCSpecies.get_xyz(generate): the stored geometry; with generate, a
\* geometry generated from the structure when none is stored
get_xyz(species, generate) ==
    IF species.xyz /= NoneXyz THEN species.xyz
    ELSE IF generate /\ species.mol /= NoneXyz THEN species.mol
    ELSE NoneXyz

\* arc.species.species.check_atom_balance(entry_1, entry_2): the two
\* entries have the same number of atoms of every element
species_check_atom_balance(entry_1, entry_2) ==
    \A e \in Range(entry_1) \cup Range(entry_2) :
        Cardinality({i \in DOMAIN entry_1 : entry_1[i] = e})
            = Cardinality({i \in DOMAIN entry_2 : entry_2[i] = e})

\* (xyz_to_str(xyz) + '\n') * count
RECURSIVE Repeat(_, _)
Repeat(xyz, count) ==
    The({ IF n <= 0 THEN <<>> ELSE atoms \o Repeat(atoms, n - 1)
          : atoms \in {xyz}, n \in {count} })

RECURSIVE Concat(_)
Concat(blocks) ==
    The({ IF Len(l) = 0 THEN <<>> ELSE l[1] \o Concat(Tail(l)) : l \in {blocks} })

---------------------------------------------------------------------------
(* ARCReaction *)

\* rmg_reaction_from_arc_species (lines 284-297)
rmg_reaction_from_arc_species(obj) ==
    IF /\ ~obj.rmg_reaction.present
       /\ Len(obj.r_species) > 0
       /\ Len(obj.p_species) > 0
       /\ \A i \in DOMAIN obj.r_species : obj.r_species[i].mol /= NoneXyz
       /\ \A i \in DOMAIN obj.p_species : obj.p_species[i].mol /= NoneXyz
    THEN [obj EXCEPT !.rmg_reaction =
              [present |-> TRUE, reactants |-> obj.r_species, products |-> obj.p_species]]
    ELSE obj

\* arc_species_from_rmg_reaction (lines 299-305)
arc_species_from_rmg_reaction(obj) ==
    IF obj.rmg_reaction.present /\ Len(obj.r_species) = 0 /\ Len(obj.p_species) = 0
    THEN [obj EXCEPT !.r_species = [i \in DOMAIN obj.rmg_reaction.reactants |->
                                       [obj.rmg_reaction.reactants[i] EXCEPT !.xyz = NoneXyz]],
                     !.p_species = [i \in DOMAIN obj.rmg_reaction.products |->
                                       [obj.rmg_reaction.products[i] EXCEPT !.xyz = NoneXyz]]]
    ELSE obj

\* lines 238-253 of set_label_reactants_products: the reactants and products
\* from the label, else from the RMG reaction
derive_reactants_products(obj) ==
    IF obj.reactants = NoneList \/ obj.products = NoneList
    THEN IF Truthy(obj.label)
         THEN IF ~Contains(obj.label, arrow)
              THEN Raise(obj, "ReactionError")
              ELSE The({ IF Len(sides) /= 2
                         THEN Raise(obj, "ValueError")  \* the unpacking of line 242
                         ELSE Ok([obj EXCEPT
                                  !.reactants = IF Contains(sides[1], plus)
                                                THEN Split(sides[1], plus) ELSE <<sides[1]>>,
                                  !.products = IF Contains(sides[2], plus)
                                               THEN Split(sides[2], plus) ELSE <<sides[2]>>])
                         : sides \in {Split(obj.label, arrow)} })
         ELSE IF obj.rmg_reaction.present
              THEN Ok([obj EXCEPT !.reactants = Labels(obj.rmg_reaction.reactants),
                                  !.products = Labels(obj.rmg_reaction.products)])
              ELSE Ok(obj)
    ELSE Ok(obj)

\* a label with the two sides in the wrong order
derive_label_sides_swapped(obj) ==
    IF ~Truthy(obj.label)
    THEN [obj EXCEPT !.label = Join(<<Join(obj.products, plus),
                                      Join(obj.reactants, plus)>>, arrow)]
    ELSE obj

\* lines 254-264: the label from the reactants and products.  r_species and
\* p_species are lists, never None, so that the branch of line 261 is dead.
derive_label(obj) ==
    IF ~Truthy(obj.label)
    THEN IF obj.reactants /= NoneList /\ obj.products /= NoneList
         THEN [obj EXCEPT !.label = Join(<<Join(obj.reactants, plus),
                                           Join(obj.products, plus)>>, arrow)]
         ELSE [obj EXCEPT !.label = Join(<<Join(Labels(obj.r_species), plus),
                                           Join(Labels(obj.p_species), plus)>>, arrow)]
    ELSE obj

\* set_label_reactants_products (lines 235-268)
set_label_reactants_products(obj) ==
    The({ IF r1.exc /= "none" THEN r1
          ELSE The({ IF ~o2.rmg_reaction.present
                     THEN Ok(rmg_reaction_from_arc_species(o2))
                     ELSE IF ~Truthy(o2.label)
                             /\ (o2.reactants = NoneList \/ o2.products = NoneList)
                          THEN Raise(o2, "ReactionError")
                          ELSE Ok(o2)
                     : o2 \in {derive_label(r1.self)} })
          : r1 \in {derive_reactants_products(obj)} })

\* get_species_count (lines 611-629).  label.split('<=>')[well] raises
\* IndexError when the label has no '<=>' and well is 1.
species_count_fails(obj, well) == Len(Split(obj.label, arrow_bare)) < well + 1

get_species_count(obj, species, well) ==
    The({ (IF StartsWith(well_str, species.label \o <<" ">>) THEN 1 ELSE 0)
          + Count(well_str, <<" ">> \o species.label \o <<" ">>)
          + (IF EndsWith(well_str, <<" ">> \o species.label) THEN 1 ELSE 0)
          : well_str \in {Split(obj.label, arrow_bare)[well + 1]} })

\* lines 554-570 of check_atom_balance: the well of one side, '' when a
\* species has no coordinates
build_well(obj, species_list, well) ==
    IF \E i \in DOMAIN species_list :
           get_xyz(species_list[i], TRUE) \in {NoneXyz, <<>>}
    THEN <<>>
    ELSE Concat([i \in DOMAIN species_list |->
                    Repeat(get_xyz(species_list[i], TRUE),
                           get_species_count(obj, species_list[i], well))])

\* lines 572-588 of check_atom_balance: the five flags, in the order
\* balanced_wells, balanced_ts_xyz, balanced_ts_species_mol,
\* balanced_ts_species_xyz, balanced_xyz_guess
balance_flags(obj, ts_xyz) ==
    The({ LET has_ts == Len(obj.ts_species) > 0
          IN  IF Len(r_well) = 0 THEN <<TRUE, TRUE, TRUE, TRUE, TRUE>>
              ELSE << Len(p_well) = 0 \/ species_check_atom_balance(r_well, p_well),
                      ts_xyz \in {NoneXyz, <<>>}
                          \/ species_check_atom_balance(ts_xyz, r_well),
                      ~has_ts \/ obj.ts_species[1].mol = NoneXyz
                          \/ species_check_atom_balance(obj.ts_species[1].mol, r_well),
                      ~has_ts \/ get_xyz(obj.ts_species[1], TRUE) = NoneXyz
                          \/ species_check_atom_balance(get_xyz(obj.ts_species[1], TRUE),
                                                        r_well),
                      \A i \in DOMAIN obj.ts_xyz_guess :
                          species_check_atom_balance(obj.ts_xyz_guess[i], r_well) >>
          : r_well \in {build_well(obj, obj.r_species, 0)},
            p_well \in {build_well(obj, obj.p_species, 1)} })

\* a call that logs one line for each of the five flags, off or not
balance_log_of_every_flag(flags) ==
    << <<"error", "wells">>, <<"error", "ts_xyz">>, <<"error", "ts_species_mol">>,
       <<"error", "ts_species_xyz">>, <<"error", "xyz_guess">> >>

\* lines 590-602 of check_atom_balance: one logger.error per flag that is off
balance_log(flags) ==
    LET texts == <<"wells", "ts_xyz", "ts_species_mol", "ts_species_xyz", "xyz_guess">>
        line(i) == IF flags[i] THEN <<>> ELSE << <<"error", texts[i]>> >>
    IN  line(1) \o line(2) \o line(3) \o line(4) \o line(5)

\* check_atom_balance (lines 529-609)
check_atom_balance(obj, ts_xyz, raise_error) ==
    The({ IF Len(o1.p_species) > 0 /\ species_count_fails(o1, 1)
          THEN [self |-> o1, exc |-> "IndexError", ret |-> FALSE, log |-> <<>>]
          ELSE The({ LET all == \A i \in 1..5 : flags[i]
                     IN  [self |-> o1,
                          exc |-> IF ~all /\ raise_error THEN "ReactionError" ELSE "none",
                          ret |-> all,
                          log |-> balance_log(flags)]
                     : flags \in {balance_flags(o1, ts_xyz)} })
          : o1 \in {arc_species_from_rmg_reaction(obj)} })

\* The attributes of an object on which __init__ has not yet run any
\* branch (lines 95-108)
new_object(a) ==
    [label |-> <<>>, reactants |-> NoneList, products |-> NoneList,
     r_species |-> <<>>, p_species |-> <<>>, ts_species |-> <<>>,
     rmg_reaction |-> NoneReaction, multiplicity |-> NoneInt, charge |-> 0,
     ts_xyz_guess |-> a.ts_xyz_guess]

\* rmg_reaction_from_str (lines 277-282): Species(smiles=...) has no label
rmg_reaction_from_str(reaction) ==
    [present |-> TRUE,
     reactants |-> [i \in DOMAIN reaction.reactants |->
                       [reaction.reactants[i] EXCEPT !.label = <<>>]],
     products |-> [i \in DOMAIN reaction.products |->
                      [reaction.products[i] EXCEPT !.label = <<>>]]]

\* a from_dict without the test of lines 208-209 and the labels of lines
\* 210-217
from_dict_labels_unchecked(obj) == Ok(obj)

\* lines 209-218 of from_dict
from_dict_labels(obj) ==
    IF ~obj.rmg_reaction.present /\ (obj.reactants = NoneList \/ obj.products = NoneList)
    THEN Raise(obj, "InputError")
    ELSE IF obj.reactants = NoneList \/ obj.products = NoneList
         THEN IF \E l \in Range(Labels(obj.rmg_reaction.reactants))
                          \cup Range(Labels(obj.rmg_reaction.products)) : ~Truthy(l)
              THEN Raise(obj, "InputError")
              ELSE Ok([obj EXCEPT !.reactants = Labels(obj.rmg_reaction.reactants),
                                  !.products = Labels(obj.rmg_reaction.products)])
         ELSE Ok(obj)

\* lines 220-233 of from_dict.  The entries of 'r_species', 'p_species' and
\* 'ts_species' are the dicts as_dict wrote (lines 173-176), and a dict has
\* no from_dict method.
from_dict_species(obj, d) ==
    IF Len(d.r_species) > 0 \/ Len(d.p_species) > 0 \/ Len(d.ts_species) > 0
    THEN Raise(obj, "AttributeError")
    ELSE Ok([obj EXCEPT !.r_species = <<>>, !.p_species = <<>>, !.ts_species = <<>>,
                        !.ts_xyz_guess = d.ts_xyz_guess])

\* from_dict (lines 192-233); the keys of the dict d are the fields of d,
\* an absent key having the value the code takes for it
from_dict(obj, d) ==
    LET o1 == [obj EXCEPT !.label = d.label, !.multiplicity = d.multiplicity,
                          !.charge = d.charge, !.reactants = d.reactants,
                          !.products = d.products,
                          !.rmg_reaction = IF d.rmg_reaction.present
                                           THEN rmg_reaction_from_str(d.rmg_reaction)
                                           ELSE NoneReaction]
    IN  The({ IF r1.exc /= "none" THEN r1
              ELSE The({ IF r2.exc /= "none" THEN r2
                         ELSE The({ IF r3.exc /= "none" THEN r3
                                    ELSE from_dict_species(r3.self, d)
                                    : r3 \in {set_label_reactants_products(r2.self)} })
                         : r2 \in {from_dict_labels(r1.self)} })
              : r1 \in {set_label_reactants_products(o1)} })

\* lines 114-132 of __init__: not reading from a dictionary
init_from_arguments(obj, a) ==
    LET o1 == [obj EXCEPT !.label = a.label, !.multiplicity = a.multiplicity,
                          !.charge = a.charge]
    IN  IF a.multiplicity = NotAnInt THEN Raise(o1, "InputError")
        ELSE LET o2 == [o1 EXCEPT !.reactants = a.reactants, !.products = a.products,
                                  !.rmg_reaction = a.rmg_reaction]
             IN  IF ~o2.rmg_reaction.present
                    /\ (o2.reactants = NoneList \/ o2.products = NoneList)
                    /\ ~Truthy(o2.label)
                 THEN Raise(o2, "InputError")
                 ELSE set_label_reactants_products(o2)

\* lines 133-135 of __init__
too_many_species(obj) ==
    Len(obj.reactants) > MaxSpecies \/ Len(obj.products) > MaxSpecies

\* __init__ (lines 82-138); a.reaction_dict says that reaction_dict is given
init(a) ==
    The({ IF r1.exc /= "none" THEN r1 @@ [ret |-> FALSE, log |-> <<>>]
          ELSE IF too_many_species(r1.self)
               THEN Raise(r1.self, "ReactionError") @@ [ret |-> FALSE, log |-> <<>>]
               ELSE check_atom_balance(r1.self, NoneXyz, TRUE)
          : r1 \in {IF a.reaction_dict THEN from_dict(new_object(a), a)
                    ELSE init_from_arguments(new_object(a), a)} })

\* the list left in the order of the species
sorted_not_at_all(l) == l

\* sorted(l) of a list of at most three integers
sorted(l) ==
    LET lo(a, b) == IF a <= b THEN a ELSE b
        hi(a, b) == IF a <= b THEN b ELSE a
    IN  IF Len(l) = 2 THEN <<lo(l[1], l[2]), hi(l[1], l[2])>>
        ELSE IF Len(l) = 3
             THEN <<lo(lo(l[1], l[2]), l[3]),
                    hi(lo(l[1], l[2]), lo(hi(l[1], l[2]), l[3])),
                    hi(hi(l[1], l[2]), l[3])>>
             ELSE l

\* lines 312-329 and 331-348 of determine_rxn_multiplicity: the ordered
\* multiplicity list of one side, empty unless the side has two or three
\* species
ordered_mult_list(species) ==
    IF Len(species) \in {2, 3}
    THEN sorted([i \in DOMAIN species |-> species[i].multiplicity])
    ELSE <<>>

\* lines 312-313, 321-322, 331-332, 340-341: a side of exactly one species
\* sets the multiplicity, the products after the reactants
single_species_multiplicity(reactants, products) ==
    IF Len(products) = 1 THEN products[1].multiplicity
    ELSE IF Len(reactants) = 1 THEN reactants[1].multiplicity
    ELSE NoneInt

\* an ambiguous row that assumes the high value instead of the documented one
ambiguous_row_assumes_high(p, low, low_p, high, high_p, assumed) ==
    IF p \in low_p THEN [multiplicity |-> low, warned |-> FALSE, found |-> TRUE]
    ELSE IF p \in high_p THEN [multiplicity |-> high, warned |-> FALSE, found |-> TRUE]
    ELSE [multiplicity |-> high, warned |-> TRUE, found |-> TRUE]

\* one ambiguous row of lines 354-408: low for the products low_p, high for
\* the products high_p, else the assumed value with a warning
ambiguous_row(p, low, low_p, high, high_p, assumed) ==
    IF p \in low_p THEN [multiplicity |-> low, warned |-> FALSE, found |-> TRUE]
    ELSE IF p \in high_p THEN [multiplicity |-> high, warned |-> FALSE, found |-> TRUE]
    ELSE [multiplicity |-> assumed, warned |-> TRUE, found |-> TRUE]

\* a multiplicity set with no warning
unambiguous_row(m) == [multiplicity |-> m, warned |-> FALSE, found |-> TRUE]

\* lines 409-416: the row [1, 2, 3]; line 415 overwrites what lines 411-414
\* chose, and line 416 always warns
row_1_2_3(p) == [multiplicity |-> 2, warned |-> TRUE, found |-> TRUE]

\* a table that falls back to a singlet instead of raising
unknown_row_fallback == [multiplicity |-> 1, warned |-> FALSE, found |-> TRUE]

\* lines 417-418: no row for the reactants, ReactionError is raised
unknown_row == [multiplicity |-> NoneInt, warned |-> FALSE, found |-> FALSE]

\* lines 350-418: the table of the ordered reactant multiplicities r and
\* the ordered product multiplicities p
multiplicity_table(r, p) ==
    IF r = <<1, 1>> THEN unambiguous_row(1)
    ELSE IF r = <<1, 2>> THEN unambiguous_row(2)
    ELSE IF r = <<2, 2>>
         THEN ambiguous_row(p, 1, {<<1, 1>>, <<1, 1, 1>>}, 3, {<<1, 3>>, <<1, 1, 3>>}, 1)
    ELSE IF r = <<1, 3>> THEN unambiguous_row(3)
    ELSE IF r = <<2, 3>>
         THEN ambiguous_row(p, 2, {<<1, 2>>, <<1, 1, 2>>}, 4, {<<1, 4>>, <<1, 1, 4>>}, 2)
    ELSE IF r = <<3, 3>>
         THEN IF p \in {<<1, 1>>, <<1, 1, 1>>} THEN unambiguous_row(1)
              ELSE IF p \in {<<1, 3>>, <<1, 1, 3>>} THEN unambiguous_row(3)
              ELSE IF p \in {<<1, 5>>, <<1, 1, 5>>} THEN unambiguous_row(5)
              ELSE [multiplicity |-> 3, warned |-> TRUE, found |-> TRUE]
    ELSE IF r = <<1, 1, 1>> THEN unambiguous_row(1)
    ELSE IF r = <<1, 1, 2>> THEN unambiguous_row(2)
    ELSE IF r = <<1, 1, 3>> THEN unambiguous_row(3)
    ELSE IF r = <<1, 2, 2>>
         THEN ambiguous_row(p, 1, {<<1, 1>>, <<1, 1, 1>>}, 3, {<<1, 3>>, <<1, 1, 3>>}, 1)
    ELSE IF r = <<2, 2, 2>>
         THEN ambiguous_row(p, 2, {<<1, 2>>, <<1, 1, 2>>}, 4, {<<1, 4>>, <<1, 1, 4>>}, 2)
    ELSE IF r = <<1, 2, 3>> THEN row_1_2_3(p)
    ELSE unknown_row

\* a test of line 309 that is never true
multiplicity_never_set(obj) == FALSE

\* line 309: self.multiplicity is not None
multiplicity_is_set(obj) == obj.multiplicity /= NoneInt

\* determine_rxn_multiplicity (lines 307-419)
determine_rxn_multiplicity(obj) ==
    IF multiplicity_is_set(obj)
    THEN [self |-> obj, exc |-> "none", log |-> <<>>]
    ELSE LET from_species == Len(obj.r_species) > 0
             from_rmg == ~from_species /\ obj.rmg_reaction.present
             reactants == IF from_species THEN obj.r_species
                          ELSE IF from_rmg THEN obj.rmg_reaction.reactants ELSE <<>>
             products == IF from_species THEN obj.p_species
                         ELSE IF from_rmg THEN obj.rmg_reaction.products ELSE <<>>
             single == single_species_multiplicity(reactants, products)
             row == multiplicity_table(ordered_mult_list(reactants),
                                       ordered_mult_list(products))
             info == << <<"info", "Setting multiplicity">> >>
             warning == << <<"warning", "ASSUMING a multiplicity">> >>
         IN  IF single /= NoneInt
             THEN [self |-> [obj EXCEPT !.multiplicity = single],
                   exc |-> "none", log |-> info]
             ELSE IF ~row.found
                  THEN [self |-> obj, exc |-> "ReactionError", log |-> <<>>]
                  ELSE [self |-> [obj EXCEPT !.multiplicity = row.multiplicity],
                        exc |-> "none",
                        log |-> (IF row.warned THEN warning ELSE <<>>) \o info]

\* sum([r.charge for r in species])
RECURSIVE sum_charges(_)
sum_charges(species) ==
    The({ IF Len(l) = 0 THEN 0 ELSE l[1].charge + sum_charges(Tail(l))
          : l \in {species} })

\* determine_rxn_charge (lines 421-424)
determine_rxn_charge(obj) ==
    IF Len(obj.r_species) > 0
    THEN [obj EXCEPT !.charge = sum_charges(obj.r_species)]
    ELSE obj


\* lines 483-499 of check_attributes: the tokens of one side of the label
\* against the reactants / products list, by membership
list_cross_check(tokens, list) ==
    IF list = NoneList THEN "none"
    ELSE IF \E i \in DOMAIN tokens : tokens[i] \notin Range(list)
         THEN "ReactionError"
         ELSE IF \E i \in DOMAIN list : list[i] \notin Range(tokens)
              THEN "ReactionError"
              ELSE "none"

\* a check_attributes that does not look at the species
species_cross_check_skipped(tokens, list, species) == "none"

\* lines 502-527 of check_attributes: the labels of r_species / p_species
\* against the list and the tokens, by membership.  r_species and
\* p_species are lists, never None; "in self.reactants" with reactants
\* None is a TypeError.
species_cross_check(tokens, list, species) ==
    IF Len(species) > 0 /\ list = NoneList THEN "TypeError"
    ELSE IF \E i \in DOMAIN species : species[i].label \notin Range(list)
         THEN "ReactionError"
         ELSE IF \E i \in DOMAIN tokens : tokens[i] \notin Range(Labels(species))
              THEN "ReactionError"
              ELSE IF list = NoneList THEN "TypeError"
                   ELSE IF \E i \in DOMAIN list : list[i] \notin Range(Labels(species))
                        THEN "ReactionError"
                        ELSE "none"

\* the first of the outcomes that is an exception
first_raised(outcomes) ==
    IF \A i \in DOMAIN outcomes : outcomes[i] = "none" THEN "none"
    ELSE outcomes[CHOOSE i \in DOMAIN outcomes :
                      /\ outcomes[i] /= "none"
                      /\ \A j \in 1..(i - 1) : outcomes[j] = "none"]

\* lines 474-527 of check_attributes, after set_label_reactants_products
attributes_cross_check(obj) ==
    IF ~Truthy(obj.label) THEN "ReactionError"
    ELSE IF ~Contains(obj.label, arrow) THEN "ReactionError"
    ELSE IF Contains(obj.label, <<"+">>) /\ ~Contains(obj.label, plus) THEN "ReactionError"
    ELSE The({ The({ first_raised(
                         << list_cross_check(reactants, obj.reactants),
                            list_cross_check(products, obj.products),
                            species_cross_check(reactants, obj.reactants, obj.r_species),
                            species_cross_check(products, obj.products, obj.p_species) >>)
                     : reactants \in {Split(species_labels[1], plus)},
                       products \in {Split(species_labels[2], plus)} })
               : species_labels \in {Split(obj.label, arrow)} })

\* check_attributes (lines 472-527)
check_attributes(obj) ==
    The({ IF r.exc /= "none" THEN r
          ELSE [self |-> r.self, exc |-> attributes_cross_check(r.self)]
          : r \in {set_label_reactants_products(obj)} })

\* None, for an atom map
NoneMap == <<-1>>

\* the answer of the alignment service that is a validation failure
ValidationFailure == <<-3>>

\* the object with the attribute _atom_map (lines 132, 233)
with_atom_map(obj, value) ==
    [label |-> obj.label, reactants |-> obj.reactants, products |-> obj.products,
     r_species |-> obj.r_species, p_species |-> obj.p_species,
     ts_species |-> obj.ts_species, rmg_reaction |-> obj.rmg_reaction,
     multiplicity |-> obj.multiplicity, charge |-> obj.charge,
     ts_xyz_guess |-> obj.ts_xyz_guess, _atom_map |-> value]

\* the lists of 0 .. n - 1 in every order
Orderings(n) ==
    {m \in [1..n -> 0..(n - 1)] : \A i, j \in 1..n : m[i] = m[j] => i = j}

\* the fragments of one side joined (lines 649, 657)
fragments(species) == Concat([i \in DOMAIN species |-> get_xyz(species[i], TRUE)])

\* QCMolecule.from_data and align (lines 648-667): the answers the
\* alignment service can give, a validation failure for two structures of
\* different atoms, else a permutation of the atoms' indices
alignment_service(reactants, products) ==
    IF species_check_atom_balance(reactants, products)
    THEN Orderings(Len(reactants))
    ELSE {ValidationFailure}

\* a get_atom_map that does not catch the ValidationError
get_atom_map_uncaught(obj) ==
    { IF m = ValidationFailure
      THEN [ret |-> NoneMap, log |-> <<>>, exc |-> "ValidationError", aligned |-> FALSE]
      ELSE [ret |-> m, log |-> <<>>, exc |-> "none", aligned |-> TRUE]
      : m \in alignment_service(fragments(obj.r_species), fragments(obj.p_species)) }

\* get_atom_map (lines 631-669): the results the call can have; aligned
\* says that products.align was called (line 667)
get_atom_map(obj) ==
    { IF m = ValidationFailure
      THEN [ret |-> NoneMap, log |-> << <<"warning", "atom map">> >>, exc |-> "none",
            aligned |-> FALSE]
      ELSE [ret |-> m, log |-> <<>>, exc |-> "none", aligned |-> TRUE]
      : m \in alignment_service(fragments(obj.r_species), fragments(obj.p_species)) }

\* the property atom_map (lines 140-146): the results a read can have;
\* called says that get_atom_map was called
atom_map(obj) ==
    IF /\ obj._atom_map = NoneMap
       /\ \A i \in DOMAIN obj.r_species : get_xyz(obj.r_species[i], FALSE) /= NoneXyz
       /\ \A i \in DOMAIN obj.p_species : get_xyz(obj.p_species[i], FALSE) /= NoneXyz
    THEN { IF r.exc /= "none"
           THEN [self |-> obj, ret |-> NoneMap, log |-> r.log, exc |-> r.exc,
                 called |-> TRUE, aligned |-> r.aligned]
           ELSE [self |-> [obj EXCEPT !._atom_map = r.ret], ret |-> r.ret, log |-> r.log,
                 exc |-> "none", called |-> TRUE, aligned |-> r.aligned]
           : r \in get_atom_map(obj) }
    ELSE { [self |-> obj, ret |-> obj._atom_map, log |-> <<>>, exc |-> "none",
            called |-> FALSE, aligned |-> FALSE] }

\* the setter of atom_map (lines 148-151)
atom_map_setter(obj, value) == [obj EXCEPT !._atom_map = value]

\* line 233 of from_dict: d.atom_map is NoneMap when the key is absent
from_dict_atom_map(obj, d) == with_atom_map(obj, d.atom_map)

---------------------------------------------------------------------------
(* The construction of a reaction: the constructor is called once with     *)
(* arguments drawn from the sets below.                                    *)

\* the longest reactants / products list given to the constructor
MaxArgLen == 4

A == <<"A">>
B == <<"B">>

\* the lists of at most n labels from A and B
RECURSIVE ListsUpTo(_)
ListsUpTo(n) ==
    IF n = 0 THEN {<<>>}
    ELSE LET shorter == ListsUpTo(n - 1)
         IN  shorter \cup {Append(l, t) : l \in {x \in shorter : Len(x) = n - 1}, t \in {A, B}}

ArgLists == {NoneList} \cup ListsUpTo(MaxArgLen)

\* the label of the reactants r and the products p
Label(r, p) == Join(<<Join(r, plus), Join(p, plus)>>, arrow)

ArgLabels ==
    { <<>>,
      Label(<<A>>, <<B>>),
      Label(<<A, B>>, <<A, A>>),
      Label(<<B>>, <<A, A, A, A>>),
      A \o B,                                  \* no arrow
      A \o arrow \o B \o arrow \o A }          \* two arrows

\* an RMG Species / an ARCSpecies of the label l with the atoms atoms
Spc(l, atoms) == [label |-> l, multiplicity |-> 1, charge |-> 0,
                  xyz |-> NoneXyz, mol |-> atoms]

SpcA == Spc(A, <<"H">>)
SpcB == Spc(B, <<"H", "H">>)

Rxn(r, p) == [present |-> TRUE, reactants |-> r, products |-> p]

ArgReactions ==
    { NoneReaction,
      Rxn(<<SpcA>>, <<SpcA>>),
      Rxn(<<SpcA, SpcA>>, <<SpcB>>),
      Rxn(<<SpcA>>, <<SpcB>>),
      Rxn(<<SpcA, SpcA, SpcA, SpcA>>, <<SpcB, SpcB>>) }

\* what the keys r_species, p_species and ts_species of a reaction_dict hold
ArgSpeciesDicts ==
    { <<<<>>, <<>>, <<>>>>,
      <<<<SpcA>>, <<SpcB>>, <<>>>>,
      <<<<>>, <<>>, <<SpcA>>>> }

\* the arguments of ARCReaction(label, reactants, products, rmg_reaction,
\* multiplicity, ts_xyz_guess)
DirectArgs(l, r, p, x, m, g) ==
    [reaction_dict |-> FALSE, label |-> l, reactants |-> r, products |-> p,
     rmg_reaction |-> x, multiplicity |-> m, charge |-> 0, ts_xyz_guess |-> g,
     r_species |-> <<>>, p_species |-> <<>>, ts_species |-> <<>>]

\* the argument of ARCReaction(reaction_dict=...)
DictArgs(l, r, p, x, d) ==
    [reaction_dict |-> TRUE, label |-> l, reactants |-> r, products |-> p,
     rmg_reaction |-> x, multiplicity |-> NoneInt, charge |-> 0, ts_xyz_guess |-> <<>>,
     r_species |-> d[1], p_species |-> d[2], ts_species |-> d[3]]

NoObject == new_object([ts_xyz_guess |-> <<>>])

\* the label and the RMG reaction given together
ArgLabelsReactions ==
    {<<l, NoneReaction>> : l \in ArgLabels}
        \cup {<<l, x>> : l \in {<<>>, Label(<<A>>, <<B>>)}, x \in ArgReactions}

\* the multiplicity and the TS guesses given together
ArgMultsGuesses ==
    {<<NoneInt, <<>>>>, <<NotAnInt, <<>>>>, <<NoneInt, << <<"H">> >>>>}

BuildInit ==
    /\ \E lx \in ArgLabelsReactions, r \in ArgLists, p \in ArgLists :
          \/ \E mg \in ArgMultsGuesses :
                args = DirectArgs(lx[1], r, p, lx[2], mg[1], mg[2])
          \/ \E d \in ArgSpeciesDicts : args = DictArgs(lx[1], r, p, lx[2], d)
    /\ self = NoObject
    /\ self2 = NoObject
    /\ exc = "none"
    /\ log = <<>>
    /\ ret = FALSE
    /\ pc = "start"

\* ARCReaction(label, reactants, products, rmg_reaction, ...)
Construct ==
    /\ pc = "start"
    /\ ~args.reaction_dict
    /\ \E r \in {init(args)} :
           /\ self' = r.self
           /\ exc' = r.exc
           /\ log' = r.log
           /\ ret' = r.ret
    /\ pc' = "constructed"
    /\ UNCHANGED <<args, self2>>

\* ARCReaction(reaction_dict=...)
ConstructFromDict ==
    /\ pc = "start"
    /\ args.reaction_dict
    /\ \E r \in {init(args)} :
           /\ self' = r.self
           /\ exc' = r.exc
           /\ log' = r.log
           /\ ret' = r.ret
    /\ pc' = "constructed"
    /\ UNCHANGED <<args, self2>>

BuildNext == Construct \/ ConstructFromDict

BuildSpec == BuildInit /\ [][BuildNext]_vars

\* the constructor has returned an object
Constructed == pc = "constructed" /\ exc = "none"

---------------------------------------------------------------------------
(* Claims on the construction *)

\* the labels of the two lists are the same as multisets
SameBag(s, t) ==
    \A e \in Range(s) \cup Range(t) :
        Cardinality({i \in DOMAIN s : s[i] = e}) = Cardinality({i \in DOMAIN t : t[i] = e})

\* the label of obj, split on the arrow and each side on the plus, gives the
\* reactants and the products of obj
LabelGivesLists(obj) ==
    LET sides == Split(obj.label, arrow)
    IN  /\ Len(sides) = 2
        /\ Split(sides[1], plus) = obj.reactants
        /\ Split(sides[2], plus) = obj.products

\* C1: in every constructed reaction, whatever was given to the
\* constructor, the label split on ' <=> ' and then on ' + ' gives exactly
\* the reactants and the products lists, in order.
C1_LabelAgreesWithLists == Constructed => LabelGivesLists(self)

\* C3: a construction that resolves to four or more reactants or to four
\* or more products ends with the error of lines 133-135 (ReactionError),
\* whichever arguments the species came from.
C3_TooManySpeciesRaises ==
    (/\ pc = "constructed"
     /\ self.reactants /= NoneList
     /\ self.products /= NoneList
     /\ (Len(self.reactants) > MaxSpecies \/ Len(self.products) > MaxSpecies))
        => exc = "ReactionError"

\* C4: every constructed reaction has one to three reactants and one to
\* three products.
C4_OneToThreePerSide ==
    Constructed => /\ Len(self.reactants) \in 1..MaxSpecies
                   /\ Len(self.products) \in 1..MaxSpecies

\* C5: in every constructed reaction whose r_species / p_species are
\* populated, their labels are the reactants / the products as multisets.
C5_SpeciesLabelsAgreeWithLists ==
    Constructed =>
        /\ Len(self.r_species) > 0 => SameBag(Labels(self.r_species), self.reactants)
        /\ Len(self.p_species) > 0 => SameBag(Labels(self.p_species), self.products)

---------------------------------------------------------------------------
(* The label round trip: a reaction is built from reactants and products   *)
(* lists alone, and a second one from the label of the first alone.        *)

\* the labels the lists are made of: a plain one, one with ' + ' inside,
\* ones that begin or end with a part of a delimiter, and '<=>' itself
RoundTripTokens ==
    { A, A \o plus \o A,
      <<"A", " ", "+">>, <<"+", " ", "A">>,
      <<"A", " ", "~">>, <<"~", " ", "A">>,
      <<"~">> }

\* the lists of one to n labels of RoundTripTokens
RECURSIVE TokenLists(_)
TokenLists(n) ==
    IF n = 1 THEN {<<t>> : t \in RoundTripTokens}
    ELSE LET shorter == TokenLists(n - 1)
         IN  shorter \cup {Append(l, t) : l \in {x \in shorter : Len(x) = n - 1},
                                          t \in RoundTripTokens}

RoundTripInit ==
    /\ \E r \in TokenLists(MaxSpecies), p \in TokenLists(MaxSpecies) :
          args = DirectArgs(<<>>, r, p, NoneReaction, NoneInt, <<>>)
    /\ self = NoObject
    /\ self2 = NoObject
    /\ exc = "none"
    /\ log = <<>>
    /\ ret = FALSE
    /\ pc = "start"

\* ARCReaction(label=self.label)
Rebuild ==
    /\ pc = "constructed"
    /\ exc = "none"
    /\ \E r \in {init(DirectArgs(self.label, NoneList, NoneList, NoneReaction,
                                 NoneInt, <<>>))} :
           /\ self2' = r.self
           /\ exc' = r.exc
           /\ log' = r.log
           /\ ret' = r.ret
    /\ pc' = "rebuilt"
    /\ UNCHANGED <<args, self>>

RoundTripNext == Construct \/ Rebuild

RoundTripSpec == RoundTripInit /\ [][RoundTripNext]_vars

\* a token of the label grammar: not empty, and with no ' + ' and no
\* ' <=> ' inside
GrammarToken(t) == Len(t) > 0 /\ ~Contains(t, plus) /\ ~Contains(t, arrow)

\* a token that forms no delimiter with the space of the delimiter next
\* to it either
CleanEnds(t) ==
    /\ ~EndsWith(t, <<" ", "+">>)
    /\ ~EndsWith(t, <<" ", "~">>)
    /\ ~StartsWith(t, <<"~", " ">>)
    /\ t /= <<"~">>

ArgTokens == Range(args.reactants) \cup Range(args.products)

\* the second reaction exists and has the lists the first was built from
RoundTrips ==
    /\ exc = "none"
    /\ self2.reactants = args.reactants
    /\ self2.products = args.products

\* C2 as claimed: lists of one to three tokens of the label grammar give a
\* label from which the same lists are built again.
C2_RoundTripOfGrammarTokens ==
    (pc = "rebuilt" /\ \A t \in ArgTokens : GrammarToken(t)) => RoundTrips

\* C2 as amended: lists of one to three tokens of the label grammar, none
\* of which ends with ' +' or ' <=>', begins with '<=> ' or is '<=>', give a
\* label from which the same lists are built again, in the same order.
C2_RoundTripOfCleanTokens ==
    (pc = "rebuilt" /\ \A t \in ArgTokens : GrammarToken(t) /\ CleanEnds(t))
        => RoundTrips

\* C2: two reactants and a product with '+ ' at the start of one of them
\* have made the round trip
C2_Witness ==
    /\ pc = "rebuilt"
    /\ exc = "none"
    /\ args.reactants = <<A, <<"+", " ", "A">> >>
    /\ self2.reactants = args.reactants
    /\ Len(self2.products) = 3

---------------------------------------------------------------------------
(* The surface multiplicity: determine_rxn_multiplicity is called on a     *)
(* reaction whose species (r_species / p_species, given by the caller, or  *)
(* those of the RMG reaction) have multiplicities drawn from 1..MaxMult.   *)

\* the largest spin multiplicity of a species
MaxMult == 5

\* a species of the multiplicity m
SpcM(m) == [label |-> A, multiplicity |-> m, charge |-> 0,
            xyz |-> NoneXyz, mol |-> <<"H">>]

\* the lists of at most MaxSpecies species with multiplicities from mults
SpeciesLists(mults) ==
    UNION {[1..n -> {SpcM(m) : m \in mults}] : n \in 0..MaxSpecies}

\* a reaction object with the species r and p, the RMG reaction x and the
\* multiplicity m; its lists of labels have passed the cap of line 133
Reaction(r, p, x, m) ==
    LET capped(n) == IF n > MaxSpecies THEN MaxSpecies ELSE n
        n_r == IF Len(r) > 0 THEN capped(Len(r))
               ELSE IF x.present THEN capped(Len(x.reactants)) ELSE 1
        n_p == IF Len(p) > 0 THEN capped(Len(p))
               ELSE IF x.present THEN capped(Len(x.products)) ELSE 1
        reactants == [i \in 1..n_r |-> A]
        products == [i \in 1..n_p |-> A]
    IN  [label |-> Label(reactants, products), reactants |-> reactants,
         products |-> products, r_species |-> r, p_species |-> p,
         ts_species |-> <<>>, rmg_reaction |-> x, multiplicity |-> m,
         charge |-> 0, ts_xyz_guess |-> <<>>]

MultInit ==
    /\ \/ \E r \in SpeciesLists(1..MaxMult), p \in SpeciesLists(1..MaxMult) :
             \/ self = Reaction(r, p, NoneReaction, NoneInt)
             \/ self = Reaction(<<>>, <<>>, Rxn(r, p), NoneInt)
       \/ \E r \in SpeciesLists(1..3), p \in SpeciesLists(1..3) :
             \/ self = Reaction(r, p, NoneReaction, 2)
             \/ self = Reaction(r, p, Rxn(<<SpcM(1), SpcM(1)>>, <<SpcM(1), SpcM(1)>>),
                                NoneInt)
       \/ \E r \in [1..(MaxSpecies + 1) -> {SpcM(1), SpcM(2)}], p \in SpeciesLists(1..2) :
             self = Reaction(r, p, NoneReaction, NoneInt)
    /\ args = self
    /\ self2 = NoObject
    /\ exc = "none"
    /\ log = <<>>
    /\ ret = FALSE
    /\ pc = "start"

\* self.determine_rxn_multiplicity(), the first call
DetermineMultiplicity ==
    /\ pc = "start"
    /\ \E r \in {determine_rxn_multiplicity(self)} :
           /\ self' = r.self
           /\ exc' = r.exc
           /\ log' = r.log
    /\ pc' = "determined"
    /\ UNCHANGED <<args, self2, ret>>

\* self.determine_rxn_multiplicity(), a later call
DetermineMultiplicityAgain ==
    /\ pc \in {"determined", "species changed", "determined again"}
    /\ \E r \in {determine_rxn_multiplicity(self)} :
           /\ self' = r.self
           /\ exc' = r.exc
           /\ log' = r.log
    /\ pc' = "determined again"
    /\ UNCHANGED <<args, self2, ret>>

\* the multiplicities the caller gives the species after the first call
ChangedMults == {1, 3}

\* the caller changes the multiplicity of every species of r_species and
\* p_species (the attributes of the species are not owned by the reaction)
ChangeSpecies ==
    /\ pc = "determined"
    /\ \E m \in ChangedMults :
           self' = [self EXCEPT
                      !.r_species = [i \in DOMAIN self.r_species |->
                                        [self.r_species[i] EXCEPT !.multiplicity = m]],
                      !.p_species = [i \in DOMAIN self.p_species |->
                                        [self.p_species[i] EXCEPT !.multiplicity = m]]]
    /\ pc' = "species changed"
    /\ UNCHANGED <<args, self2, exc, log, ret>>

MultNext == DetermineMultiplicity \/ DetermineMultiplicityAgain \/ ChangeSpecies

MultSpec == MultInit /\ [][MultNext]_vars

---------------------------------------------------------------------------
(* Claims on the surface multiplicity.  args is the reaction before the    *)
(* first call.                                                             *)

\* the species the call reads: r_species / p_species when there are
\* reactant species, else those of the RMG reaction
ReadReactants ==
    IF Len(args.r_species) > 0 THEN args.r_species
    ELSE IF args.rmg_reaction.present THEN args.rmg_reaction.reactants ELSE <<>>

ReadProducts ==
    IF Len(args.r_species) > 0 THEN args.p_species
    ELSE IF args.rmg_reaction.present THEN args.rmg_reaction.products ELSE <<>>

\* the multiplicities of the species list, in ascending order
Ascending(species) ==
    LET m == [i \in DOMAIN species |-> species[i].multiplicity]
    IN  CHOOSE q \in [DOMAIN m -> Range(m)] :
            /\ \A i, j \in DOMAIN q : i <= j => q[i] <= q[j]
            /\ \A v \in Range(m) : Cardinality({i \in DOMAIN m : m[i] = v})
                                    = Cardinality({i \in DOMAIN q : q[i] = v})

RKey == Ascending(ReadReactants)
PKey == Ascending(ReadProducts)

\* the first call has been made on a reaction with no multiplicity and
\* with two or three species on each side (or, if allowed, no products)
FirstCall(products_optional) ==
    /\ pc = "determined"
    /\ args.multiplicity = NoneInt
    /\ Len(ReadReactants) \in {2, 3}
    /\ \/ Len(ReadProducts) \in {2, 3}
       \/ products_optional /\ Len(ReadProducts) = 0

Assumed == \E i \in DOMAIN log : log[i] = <<"warning", "ASSUMING a multiplicity">>

\* the call returned and set the multiplicity m
Gives(m) == exc = "none" /\ self.multiplicity = m

\* the twelve keys of the table
TableKeys ==
    {<<1, 1>>, <<1, 2>>, <<1, 3>>, <<2, 2>>, <<2, 3>>, <<3, 3>>,
     <<1, 1, 1>>, <<1, 1, 2>>, <<1, 1, 3>>, <<1, 2, 2>>, <<2, 2, 2>>, <<1, 2, 3>>}

Disambiguated(low, high, default) ==
    IF PKey \in {<<1, low>>, <<1, 1, low>>} THEN Gives(low)
    ELSE IF PKey \in {<<1, high>>, <<1, 1, high>>} THEN Gives(high)
    ELSE Gives(default)

\* C7: with no multiplicity set and at least two species on each side,
\* [2,2] and [1,2,2] give 1 for the products [1,1] / [1,1,1], 3 for [1,3] /
\* [1,1,3], else 1; [2,3] and [2,2,2] give 2 for [1,2] / [1,1,2], 4 for
\* [1,4] / [1,1,4], else 2; [3,3] gives 1, 3, 5 for [1,1] / [1,1,1],
\* [1,3] / [1,1,3], [1,5] / [1,1,5], else 3.
C7_AmbiguousRows ==
    FirstCall(FALSE) =>
        /\ RKey \in {<<2, 2>>, <<1, 2, 2>>} => Disambiguated(1, 3, 1)
        /\ RKey \in {<<2, 3>>, <<2, 2, 2>>} => Disambiguated(2, 4, 2)
        /\ RKey = <<3, 3>> =>
              IF PKey \in {<<1, 5>>, <<1, 1, 5>>} THEN Gives(5)
              ELSE Disambiguated(1, 3, 3)

\* C7: two triplets with the products 1, 5, 1 gave a quintet surface
C7_Witness ==
    /\ FirstCall(FALSE)
    /\ RKey = <<3, 3>>
    /\ Len(ReadProducts) = 3
    /\ [i \in 1..3 |-> ReadProducts[i].multiplicity] = <<1, 5, 1>>
    /\ Gives(5)

\* C8: with no multiplicity set, the reactants [1,2,3] and at least two
\* products give 4 for the products [1,4] / [1,1,4] and 2 for [1,2] /
\* [1,1,2] or any other products.
C8_RowSingletDoubletTriplet ==
    (FirstCall(FALSE) /\ RKey = <<1, 2, 3>>) => Disambiguated(2, 4, 2)

\* the product patterns the row of the reactant key r lists
ListedPatterns(r) ==
    IF r \in {<<2, 2>>, <<1, 2, 2>>} THEN {<<1, 1>>, <<1, 1, 1>>, <<1, 3>>, <<1, 1, 3>>}
    ELSE IF r \in {<<2, 3>>, <<2, 2, 2>>, <<1, 2, 3>>}
         THEN {<<1, 2>>, <<1, 1, 2>>, <<1, 4>>, <<1, 1, 4>>}
    ELSE IF r = <<3, 3>>
         THEN {<<1, 1>>, <<1, 1, 1>>, <<1, 3>>, <<1, 1, 3>>, <<1, 5>>, <<1, 1, 5>>}
    ELSE {}

AmbiguousKeys == {<<2, 2>>, <<2, 3>>, <<3, 3>>, <<1, 2, 2>>, <<2, 2, 2>>, <<1, 2, 3>>}

\* C9: the 'ASSUMING a multiplicity' warning is emitted exactly when the
\* reactant key is an ambiguous row and the product multiplicities match
\* none of the patterns the row lists.
C9_WarningOnlyWhenAssumed ==
    FirstCall(TRUE) =>
        (Assumed <=> (RKey \in AmbiguousKeys /\ PKey \notin ListedPatterns(RKey)))

\* C10: with no multiplicity set and neither side of exactly one species, a
\* reactant key that is not in the table (the empty key included) makes the
\* call raise ReactionError and leaves the multiplicity unset.
C10_UnknownKeyRaises ==
    (/\ pc = "determined"
     /\ args.multiplicity = NoneInt
     /\ Len(ReadReactants) /= 1
     /\ Len(ReadProducts) /= 1
     /\ RKey \notin TableKeys)
        => exc = "ReactionError" /\ self.multiplicity = NoneInt

\* C10: a singlet and a quartet with two products raised, and the
\* multiplicity is still unset
C10_Witness ==
    /\ pc = "determined"
    /\ args.multiplicity = NoneInt
    /\ RKey = <<1, 4>>
    /\ Len(ReadProducts) = 2
    /\ exc = "ReactionError"
    /\ self.multiplicity = NoneInt

\* the multiplicity of the only species of the list
Sole(species) == species[1].multiplicity

\* C11: with no multiplicity set, a reaction with exactly one reactant
\* species gets that reactant's multiplicity, and a reaction with exactly
\* one product species and several reactants gets that product's, whatever
\* the multiplicities on the other side are.
C11_SingleSpeciesSide ==
    (pc = "determined" /\ args.multiplicity = NoneInt) =>
        /\ Len(ReadReactants) = 1 => Gives(Sole(ReadReactants))
        /\ (Len(ReadProducts) = 1 /\ Len(ReadReactants) > 1) => Gives(Sole(ReadProducts))

\* C12: a call made when the multiplicity is set leaves it as it is, raises
\* nothing and emits no warning, whatever the species multiplicities are.
C12_SetMultiplicityIsKept ==
    [][(pc' \in {"determined", "determined again"} /\ self.multiplicity /= NoneInt)
          => /\ self'.multiplicity = self.multiplicity
             /\ exc' = "none"
             /\ \A i \in DOMAIN log' : log'[i][1] /= "warning"]_vars

\* C12: the first call inferred a triplet from the reactants 1, 3, the
\* caller then made every species a singlet, and a later call kept the
\* triplet
C12_Witness ==
    /\ pc = "determined again"
    /\ args.multiplicity = NoneInt
    /\ RKey = <<1, 3>>
    /\ Len(self.r_species) = 2
    /\ \A i \in DOMAIN self.r_species : self.r_species[i].multiplicity = 1
    /\ Gives(3)

---------------------------------------------------------------------------
(* The surface charge: determine_rxn_charge is called on a reaction whose  *)
(* r_species / p_species were attached after the construction, either one  *)
(* species per entry of the reactants / products list (as                  *)
(* arc_species_from_rmg_reaction does) or one species per distinct label   *)
(* (the form get_species_count counts in).                                 *)

\* the largest absolute charge of a species
MaxCharge == 1

Charges == (0 - MaxCharge)..MaxCharge

\* a species of the label l, the charge c and the atoms atoms
SpcC(l, c, atoms) == [label |-> l, multiplicity |-> 1, charge |-> c,
                      xyz |-> atoms, mol |-> atoms]

\* the labels of the list, each once, in the order of their first place
RECURSIVE Distinct(_)
Distinct(labels) ==
    The({ IF Len(l) = 0 THEN <<>>
          ELSE The({ IF l[Len(l)] \in Range(front) THEN front
                     ELSE Append(front, l[Len(l)])
                     : front \in {Distinct(SubSeq(l, 1, Len(l) - 1))} })
          : l \in {labels} })

\* the species of the labels: of(l) is the species of the label l
SpeciesOf(labels, of) == [i \in DOMAIN labels |-> of[labels[i]]]

\* a constructed reaction of the reactants and products lists, with the
\* species r and p attached and the charge c
ReactionOf(reactants, products, r, p, c) ==
    [label |-> Label(reactants, products), reactants |-> reactants,
     products |-> products, r_species |-> r, p_species |-> p,
     ts_species |-> <<>>, rmg_reaction |-> NoneReaction, multiplicity |-> NoneInt,
     charge |-> c, ts_xyz_guess |-> <<>>]

\* the reactants and products lists of the reactions below
SideLists == ListsUpTo(MaxSpecies) \ {<<>>}

ChargeInit ==
    /\ \E reactants \in SideLists, products \in {<<A>>, <<B>>, <<A, B>>},
          ca \in Charges, cb \in Charges, c \in {0, 1},
          attached \in {"none", "per entry", "per label"} :
          LET of == (A :> SpcC(A, ca, <<"H">>)) @@ (B :> SpcC(B, cb, <<"H", "H">>))
              r == IF attached = "none" THEN <<>>
                   ELSE IF attached = "per entry" THEN SpeciesOf(reactants, of)
                   ELSE SpeciesOf(Distinct(reactants), of)
              p == IF attached = "none" THEN <<>>
                   ELSE IF attached = "per entry" THEN SpeciesOf(products, of)
                   ELSE SpeciesOf(Distinct(products), of)
          IN  self = ReactionOf(reactants, products, r, p, c)
    /\ args = self
    /\ self2 = NoObject
    /\ exc = "none"
    /\ log = <<>>
    /\ ret = FALSE
    /\ pc = "start"

\* self.determine_rxn_charge()
DetermineCharge ==
    /\ pc = "start"
    /\ self' = determine_rxn_charge(self)
    /\ pc' = "charge determined"
    /\ UNCHANGED <<args, self2, exc, log, ret>>

ChargeNext == DetermineCharge

ChargeSpec == ChargeInit /\ [][ChargeNext]_vars

\* the species of the list that has the label l
WithLabel(species, l) == CHOOSE x \in Range(species) : x.label = l

\* the sum of the charges of the species of the labels, a label that
\* occurs twice counted twice
RECURSIVE ChargeOfLabels(_, _)
ChargeOfLabels(labels, species) ==
    IF Len(labels) = 0 THEN 0
    ELSE WithLabel(species, labels[1]).charge + ChargeOfLabels(Tail(labels), species)

\* C13: after determine_rxn_charge on a reaction with reactant species, the
\* charge is the sum over the entries of the reactants list of the charge
\* of the species of that label; with no reactant species the charge is
\* the one it had.
C13_ChargeOfReactants ==
    pc = "charge determined" =>
        IF Len(args.r_species) > 0
        THEN self.charge = ChargeOfLabels(args.reactants, args.r_species)
        ELSE self.charge = args.charge

---------------------------------------------------------------------------
(* The atom balance: check_atom_balance(ts_xyz, raise_error) is called on  *)
(* a constructed reaction to which the caller has attached species (one    *)
(* per entry of the lists or one per distinct label), or that holds an RMG *)
(* reaction from which the call itself makes the species.                  *)

\* the longest reactants / products list of the reactions checked
MaxSideLen == 2

\* a species of the label l with the coordinates xyz and the structure mol
SpcG(l, xyz, mol) == [label |-> l, multiplicity |-> 1, charge |-> 0,
                      xyz |-> xyz, mol |-> mol]

H == <<"H">>
HH == <<"H", "H">>
OH == <<"O", "H">>

\* what a species may hold: nothing, coordinates and structure, or the
\* structure alone
Held(atoms) == {<<NoneXyz, NoneXyz>>, <<atoms, atoms>>, <<NoneXyz, atoms>>}

BalanceLists == ListsUpTo(MaxSideLen) \ {<<>>}

\* the products lists of the reactions checked
BalanceProducts == {<<A>>, <<B>>, <<A, B>>, <<B, B>>}

\* the TS guesses given at construction
ArgGuesses == {<<>>, <<HH>>, <<H, HH>>, <<H, OH>>}

\* the TS species attached to the reaction: none, or one of a structure
\* and of coordinates
ArgTSSpecies ==
    {<<>>, <<SpcG(<<"T", "S">>, HH, HH)>>, <<SpcG(<<"T", "S">>, OH, NoneXyz)>>,
     <<SpcG(<<"T", "S">>, NoneXyz, H)>>}

\* the TS species, the TS guesses and the ts_xyz argument of one call: each
\* alone, and some together
ArgTS ==
    {<<ts, <<>>, NoneXyz>> : ts \in ArgTSSpecies}
        \cup {<<<<>>, g, NoneXyz>> : g \in ArgGuesses}
        \cup {<<<<>>, <<>>, ts_xyz>> : ts_xyz \in {<<>>, HH, OH}}
        \cup { <<<<SpcG(<<"T", "S">>, HH, HH)>>, <<H, OH>>, OH>>,
               <<<<SpcG(<<"T", "S">>, OH, NoneXyz)>>, <<HH>>, HH>>,
               <<<<SpcG(<<"T", "S">>, NoneXyz, H)>>, <<H, HH>>, <<>>>> }

\* the reaction of the lists with the label label, the species of the map
\* of attached in the way attached, the TS species ts and the guesses g
BalanceReaction(label, reactants, products, of, attached, ts, g) ==
    LET r == IF attached = "per entry" THEN SpeciesOf(reactants, of)
             ELSE IF attached = "per label" THEN SpeciesOf(Distinct(reactants), of)
             ELSE <<>>
        p == IF attached = "per entry" THEN SpeciesOf(products, of)
             ELSE IF attached = "per label" THEN SpeciesOf(Distinct(products), of)
             ELSE <<>>
        x == IF attached = "stub"
             THEN Rxn(SpeciesOf(reactants, of), SpeciesOf(products, of))
             ELSE NoneReaction
    IN  [ReactionOf(reactants, products, r, p, 0) EXCEPT
            !.label = label, !.rmg_reaction = x, !.ts_species = ts, !.ts_xyz_guess = g]

\* CH4 <=> CH3 + H and H2O <=> H2, a species per entry
Example(reactant, products) ==
    LET spc(atoms) == SpcG(atoms, atoms, atoms)
        r == <<spc(reactant)>>
        p == [i \in DOMAIN products |-> spc(products[i])]
    IN  ReactionOf(Labels(r), Labels(p), r, p, 0)

Examples ==
    { Example(<<"C", "H", "H", "H", "H">>, << <<"C", "H", "H", "H">>, <<"H">> >>),
      Example(<<"H", "H", "O">>, << <<"H", "H">> >>) }

BalanceInit ==
    /\ \/ \E reactants \in BalanceLists, products \in BalanceProducts,
             a \in Held(H), b \in Held(HH) \cup {<<OH, OH>>},
             attached \in {"none", "per entry", "per label", "stub"},
             t \in ArgTS, raise_error \in BOOLEAN :
             LET of == (A :> SpcG(A, a[1], a[2])) @@ (B :> SpcG(B, b[1], b[2]))
             IN  /\ args = [ts_xyz |-> t[3], raise_error |-> raise_error]
                 /\ \/ self = BalanceReaction(Label(reactants, products), reactants,
                                              products, of, attached, t[1], t[2])
                    \/ /\ attached = "per entry"
                       /\ self = BalanceReaction(A \o B, reactants, products, of,
                                                 attached, t[1], t[2])
       \/ /\ self \in Examples
          /\ \E raise_error \in BOOLEAN :
                args = [ts_xyz |-> NoneXyz, raise_error |-> raise_error]
    /\ self2 = NoObject
    /\ exc = "none"
    /\ log = <<>>
    /\ ret = FALSE
    /\ pc = "start"

\* self.check_atom_balance(ts_xyz, raise_error)
CheckAtomBalance ==
    /\ pc = "start"
    /\ \E r \in {check_atom_balance(self, args.ts_xyz, args.raise_error)} :
           /\ self' = r.self
           /\ exc' = r.exc
           /\ log' = r.log
           /\ ret' = r.ret
    /\ pc' = "balance checked"
    /\ UNCHANGED <<args, self2>>

BalanceNext == CheckAtomBalance

BalanceSpec == BalanceInit /\ [][BalanceNext]_vars

---------------------------------------------------------------------------
(* Claims on the atom balance.  self is the reaction after the call: the   *)
(* call changes it only by making r_species / p_species from the RMG       *)
(* reaction.                                                               *)

Checked == pc = "balance checked"

\* the number of atoms of the element e in the entry
AtomsOf(e, entry) == Cardinality({i \in DOMAIN entry : entry[i] = e})

\* the two entries have the same number of atoms of every element
SameAtoms(entry_1, entry_2) ==
    \A e \in Range(entry_1) \cup Range(entry_2) : AtomsOf(e, entry_1) = AtomsOf(e, entry_2)

\* the coordinates the check uses for the species
Geometry(species) == get_xyz(species, TRUE)

HasGeometry(species) == Geometry(species) \notin {NoneXyz, <<>>}

\* the wells the call builds
RWell == build_well(self, self.r_species, 0)
PWell == build_well(self, self.p_species, 1)

\* the comparisons that were performed and found different atom counts:
\* <<"wells", 0>>, <<"ts_xyz", 0>>, <<"ts mol", 0>>, <<"ts geometry", 0>>,
\* and <<"guess", i>> for the guess i
Mismatches ==
    IF RWell = <<>> THEN {}
    ELSE {c \in {<<"wells", 0>>} : PWell /= <<>> /\ ~SameAtoms(RWell, PWell)}
         \cup {c \in {<<"ts_xyz", 0>>} : args.ts_xyz \notin {NoneXyz, <<>>}
                                          /\ ~SameAtoms(args.ts_xyz, RWell)}
         \cup {c \in {<<"ts mol", 0>>} :
                   /\ Len(self.ts_species) > 0
                   /\ self.ts_species[1].mol /= NoneXyz
                   /\ ~SameAtoms(self.ts_species[1].mol, RWell)}
         \cup {c \in {<<"ts geometry", 0>>} :
                   /\ Len(self.ts_species) > 0
                   /\ Geometry(self.ts_species[1]) /= NoneXyz
                   /\ ~SameAtoms(Geometry(self.ts_species[1]), RWell)}
         \cup {<<"guess", i>> : i \in {j \in DOMAIN self.ts_xyz_guess :
                                           ~SameAtoms(self.ts_xyz_guess[j], RWell)}}

\* C14: with raise_error False the call never raises and returns False
\* exactly when a performed comparison found different atom counts; with
\* raise_error True it raises ReactionError in exactly those cases and
\* returns True in all others.
C14_BalanceAggregation ==
    Checked =>
        /\ exc \in {"none", "ReactionError"}
        /\ IF args.raise_error
           THEN IF Mismatches /= {} THEN exc = "ReactionError"
                ELSE exc = "none" /\ ret = TRUE
           ELSE exc = "none" /\ (ret = FALSE <=> Mismatches /= {})

\* the call failed: it raised ReactionError or returned False
Unbalanced == IF args.raise_error THEN exc = "ReactionError" ELSE ret = FALSE

\* C15: if a reactant species has no geometry the call returns True and
\* raises nothing, whatever the products and the TS are; if the reactant
\* well is there and a product has no geometry, the wells are not compared
\* and the TS comparisons with the reactant well are still made.
C15_MissingGeometryIsNoFailure ==
    Checked =>
        /\ (\E i \in DOMAIN self.r_species : ~HasGeometry(self.r_species[i]))
              => exc = "none" /\ ret = TRUE
        /\ (/\ \A i \in DOMAIN self.r_species : HasGeometry(self.r_species[i])
            /\ \E i \in DOMAIN self.p_species : ~HasGeometry(self.p_species[i]))
              => /\ exc \in {"none", "ReactionError"}
                 /\ <<"wells", 0>> \notin Mismatches
                 /\ \A i \in DOMAIN log : log[i] /= <<"error", "wells">>
                 /\ Unbalanced <=> Mismatches /= {}

\* the elements of the geometries checked
Elements == {"C", "H", "O"}

\* the atoms of the element e in the species of the labels, a label that
\* occurs twice counted twice
RECURSIVE AtomsOfLabels(_, _, _)
AtomsOfLabels(e, labels, species) ==
    IF Len(labels) = 0 THEN 0
    ELSE AtomsOf(e, Geometry(WithLabel(species, labels[1])))
             + AtomsOfLabels(e, Tail(labels), species)

\* the species list holds the species of the labels, each at least once,
\* and every species of it has a geometry
SideOf(species, labels) ==
    /\ Len(species) > 0
    /\ Range(Labels(species)) = Range(labels)
    /\ \A i \in DOMAIN species : HasGeometry(species[i])

\* the well has the atoms of the label's tokens
WellOfTokens(well, labels, species) ==
    \A e \in Elements : AtomsOf(e, well) = AtomsOfLabels(e, labels, species)

\* the species are attached once per distinct label
OncePerLabel(species) ==
    \A i, j \in DOMAIN species : species[i].label = species[j].label => i = j

\* C16: when every species of a side has a geometry, the well of that side
\* has, of every element, the sum over the label's tokens of that side of
\* the atoms of the species of that label, for species lists with one
\* species per label as for lists with one per occurrence; so CH4 <=> CH3 + H
\* is balanced and H2O <=> H2 is not.
C16_WellComposition ==
    (Checked /\ self.label = Label(self.reactants, self.products)) =>
        /\ SideOf(self.r_species, self.reactants)
              => WellOfTokens(RWell, self.reactants, self.r_species)
        /\ SideOf(self.p_species, self.products)
              => WellOfTokens(PWell, self.products, self.p_species)
        /\ self \in Examples => (ret <=> SameAtoms(Concat(Labels(self.r_species)),
                                                    Concat(Labels(self.p_species))))

\* the mismatches of the comparisons the call came to perform: none when
\* it raised before the first comparison
Performed == IF exc = "IndexError" THEN {} ELSE Mismatches

\* the error lines of the call
ErrorLines == {i \in DOMAIN log : log[i][1] = "error"}

\* the line logged for a kind of comparison (lines 590-602)
LineOf ==
    [k \in {"wells", "ts_xyz", "ts mol", "ts geometry", "guess"} |->
        CASE k = "wells" -> "wells"
          [] k = "ts_xyz" -> "ts_xyz"
          [] k = "ts mol" -> "ts_species_mol"
          [] k = "ts geometry" -> "ts_species_xyz"
          [] k = "guess" -> "xyz_guess"]

\* C17 as stated: the call logs one error line per performed comparison
\* that mismatched, each mismatching TS guess counting as one, and no
\* error line for a comparison that passed or was not made.
C17_OneLinePerMismatch ==
    Checked =>
        /\ Cardinality(ErrorLines) = Cardinality(Performed)
        /\ \A i \in ErrorLines : \E m \in Performed : LineOf[m[1]] = log[i][2]

\* C17 amended: the call logs one error line per kind of comparison that
\* mismatched (wells, ts_xyz, TS structure, TS geometry, TS guesses), the
\* TS guesses together counting as one kind however many of them
\* mismatch, and no error line for a kind that passed or was not made.
C17_OneLinePerKind ==
    Checked =>
        /\ Cardinality(ErrorLines) = Cardinality({m[1] : m \in Performed})
        /\ {log[i][2] : i \in ErrorLines} = {LineOf[m[1]] : m \in Performed}
        /\ ErrorLines = DOMAIN log

\* two TS guesses and the ts_xyz argument mismatch the reactant well: two
\* error lines for three mismatches
C17_Witness ==
    /\ Checked
    /\ exc = "ReactionError"
    /\ {<<"guess", 1>>, <<"guess", 2>>, <<"ts_xyz", 0>>} \subseteq Performed
    /\ Len(log) = 2

---------------------------------------------------------------------------
(* The atom map: reads of the property atom_map, assignments through its   *)
(* setter and changes of the species' geometries by the caller, on a       *)
(* reaction with species attached or restored from a dictionary.  args     *)
(* keeps what has happened: the number of reads, the number of calls of    *)
(* the alignment service since the last assignment, the result of the     *)
(* first of these calls, and whether the last call of get_atom_map came   *)
(* to call products.align.                                                 *)

\* the number of reads of atom_map followed
MaxReads == 3

\* no call of the alignment service since the last assignment
NotComputed == <<-2>>

\* the values assigned to atom_map or found in a dictionary
MapValues == {NoneMap, <<0>>, <<0, 0>>, <<1, 0>>}

\* the dictionary as_dict writes for the reaction A <=> B with the atom map m
MapDict(m) ==
    DictArgs(Label(<<A>>, <<B>>), <<A>>, <<B>>, NoneReaction, <<<<>>, <<>>, <<>>>>)
        @@ [atom_map |-> m]

AtomMapInit ==
    /\ \/ \E reactants \in {<<A>>, <<A, A>>, <<A, B>>}, products \in {<<A>>, <<B>>},
             a \in {<<NoneXyz, NoneXyz>>, <<H, H>>},
             b \in {<<NoneXyz, NoneXyz>>, <<H, H>>, <<HH, HH>>},
             attached \in {"none", "per entry", "per label"} :
             LET of == (A :> SpcG(A, a[1], a[2])) @@ (B :> SpcG(B, b[1], b[2]))
             IN  self = with_atom_map(
                            BalanceReaction(Label(reactants, products), reactants, products,
                                            of, attached, <<>>, <<>>),
                            NoneMap)
       \/ \E m \in MapValues :
             \E r \in {from_dict(NoObject, MapDict(m))} :
                 r.exc = "none" /\ self = from_dict_atom_map(r.self, MapDict(m))
    /\ args = [reads |-> 0, calls |-> 0, first |-> NotComputed, aligned |-> FALSE]
    /\ self2 = NoObject
    /\ exc = "none"
    /\ log = <<>>
    /\ ret = NoneMap
    /\ pc = "start"

\* self.atom_map
ReadAtomMap ==
    /\ args.reads < MaxReads
    /\ \E r \in atom_map(self) :
           /\ self' = r.self
           /\ ret' = r.ret
           /\ log' = r.log
           /\ exc' = r.exc
           /\ args' = [reads |-> args.reads + 1,
                       calls |-> IF r.called THEN args.calls + 1 ELSE args.calls,
                       first |-> IF r.called /\ args.first = NotComputed
                                 THEN r.ret ELSE args.first,
                       aligned |-> IF r.called THEN r.aligned ELSE args.aligned]
    /\ pc' = "read"
    /\ UNCHANGED self2

\* self.get_atom_map(), called by the caller on a reaction whose species
\* all have a geometry
GetAtomMap ==
    /\ pc /= "mapped"
    /\ \A i \in DOMAIN self.r_species : get_xyz(self.r_species[i], TRUE) /= NoneXyz
    /\ \A i \in DOMAIN self.p_species : get_xyz(self.p_species[i], TRUE) /= NoneXyz
    /\ \E r \in get_atom_map(self) :
           /\ ret' = r.ret
           /\ log' = r.log
           /\ exc' = r.exc
           /\ args' = [args EXCEPT !.aligned = r.aligned]
    /\ pc' = "mapped"
    /\ UNCHANGED <<self, self2>>

\* self.atom_map = value
SetAtomMap ==
    /\ \E value \in MapValues : self' = atom_map_setter(self, value)
    /\ args' = [args EXCEPT !.calls = 0, !.first = NotComputed]
    /\ pc' = "set"
    /\ UNCHANGED <<self2, exc, log, ret>>

\* the caller gives the species of one label another geometry
ChangeGeometry ==
    /\ \E l \in {A, B}, xyz \in {H, HH} :
           LET changed(species) ==
                   [i \in DOMAIN species |->
                       IF species[i].label = l
                       THEN [species[i] EXCEPT !.xyz = xyz, !.mol = xyz]
                       ELSE species[i]]
           IN  /\ \E i \in DOMAIN self.r_species \cup DOMAIN self.p_species :
                      \/ i \in DOMAIN self.r_species /\ self.r_species[i].label = l
                      \/ i \in DOMAIN self.p_species /\ self.p_species[i].label = l
               /\ self' = [self EXCEPT !.r_species = changed(self.r_species),
                                       !.p_species = changed(self.p_species)]
    /\ self' /= self
    /\ pc' = "geometry changed"
    /\ UNCHANGED <<args, self2, exc, log, ret>>

AtomMapNext == ReadAtomMap \/ SetAtomMap \/ ChangeGeometry \/ GetAtomMap

AtomMapSpec == AtomMapInit /\ [][AtomMapNext]_vars

---------------------------------------------------------------------------
(* The attribute check: check_attributes is called on a reaction whose     *)
(* label and reactants / products lists are drawn independently, and      *)
(* whose species have the labels of the list, of the label, of either with *)
(* one label replaced or each label once, so that the three agree, differ  *)
(* in one label, or differ in the number of occurrences of a label.  args  *)
(* is the reaction before the call.                                        *)

\* the longest list of labels of the reactions checked
MaxAttrLen == 2

\* a label that no species of the well-formed reactions has
X == <<"X">>

RECURSIVE AttrListsUpTo(_)
AttrListsUpTo(n) ==
    IF n = 0 THEN {<<>>}
    ELSE LET shorter == AttrListsUpTo(n - 1)
         IN  shorter \cup {Append(l, t) : l \in {x \in shorter : Len(x) = n - 1},
                                          t \in {A, B, X}}

AttrLists == AttrListsUpTo(MaxAttrLen) \ {<<>>}

\* the tokens of the label's product side, the products list and the
\* labels of p_species: agreeing, without species, with one label
\* replaced, and with a label repeated
AttrProducts ==
    { <<<<B>>, <<B>>, <<B>>>>, <<<<B>>, <<B>>, <<>>>>,
      <<<<X>>, <<B>>, <<B>>>>, <<<<B>>, <<X>>, <<B>>>>, <<<<B>>, <<B>>, <<X>>>>,
      <<<<B, B>>, <<B>>, <<B>>>> }

\* the labels of r_species for the tokens of the label and the list: none,
\* those of the list, those of the label, each label of the list once, and
\* those of the list with one replaced by X
AttrSpeciesLabels(tokens, reactants) ==
    {<<>>, reactants, tokens, Distinct(reactants)}
        \cup {[reactants EXCEPT ![i] = X] : i \in DOMAIN reactants}

\* the species of the labels
SpeciesLabelled(labels) == [i \in DOMAIN labels |-> Spc(labels[i], <<"H">>)]

AttrInit ==
    /\ \E tokens \in AttrLists, reactants \in AttrLists, p \in AttrProducts :
       \E species \in AttrSpeciesLabels(tokens, reactants) :
          self = [ReactionOf(reactants, p[2], SpeciesLabelled(species),
                             SpeciesLabelled(p[3]), 0)
                     EXCEPT !.label = Label(tokens, p[1])]
    /\ args = self
    /\ self2 = NoObject
    /\ exc = "none"
    /\ log = <<>>
    /\ ret = FALSE
    /\ pc = "start"

\* self.check_attributes()
CheckAttributes ==
    /\ pc = "start"
    /\ \E r \in {check_attributes(self)} :
           /\ self' = r.self
           /\ exc' = r.exc
    /\ pc' = "attributes checked"
    /\ UNCHANGED <<args, self2, log, ret>>

AttrNext == CheckAttributes

AttrSpec == AttrInit /\ [][AttrNext]_vars

---------------------------------------------------------------------------
(* Claims on the attribute check *)

\* the tokens of the two sides of the label of obj
SideTokens(obj) ==
    [i \in 1..2 |-> Split(Split(obj.label, arrow)[i], plus)]

\* I1 to I3: the label gives the lists, each side has one to three
\* entries, and the species, if there are any, have the labels of the list
WellFormed(obj) ==
    /\ SideTokens(obj) = <<obj.reactants, obj.products>>
    /\ Len(obj.reactants) \in 1..MaxSpecies /\ Len(obj.products) \in 1..MaxSpecies
    /\ X \notin Range(obj.reactants) \cup Range(obj.products)
    /\ obj.r_species = <<>> \/ SameBag(Labels(obj.r_species), obj.reactants)
    /\ obj.p_species = <<>> \/ SameBag(Labels(obj.p_species), obj.products)

Populated(obj) == Len(obj.r_species) > 0 /\ Len(obj.p_species) > 0

\* C22: check_attributes does not raise on a well-formed reaction, whether
\* its species are populated or not.
C22_WellFormedPasses ==
    (pc = "attributes checked" /\ WellFormed(args)) => exc = "none"

\* the list l with X at the place i, where base has another label
Replaced(l, base, i) ==
    /\ Len(l) = Len(base)
    /\ i \in DOMAIN l
    /\ l[i] = X /\ base[i] /= X
    /\ \A j \in DOMAIN l : j /= i => l[j] = base[j]

\* obj is a well-formed populated reaction in which one label of one
\* representation of one side was replaced by X
SingleCorruption(obj) ==
    \E side \in 1..2 :
        LET other == 3 - side
            tokens == SideTokens(obj)
            lists == <<obj.reactants, obj.products>>
            labels == <<Labels(obj.r_species), Labels(obj.p_species)>>
            clean(l) == X \notin Range(l)
        IN  /\ Populated(obj)
            /\ tokens[other] = lists[other] /\ SameBag(labels[other], lists[other])
            /\ clean(lists[other])
            /\ \/ /\ clean(lists[side]) /\ SameBag(labels[side], lists[side])
                  /\ \E i \in DOMAIN tokens[side] : Replaced(tokens[side], lists[side], i)
               \/ /\ clean(tokens[side]) /\ SameBag(labels[side], tokens[side])
                  /\ \E i \in DOMAIN lists[side] : Replaced(lists[side], tokens[side], i)
               \/ /\ clean(lists[side]) /\ tokens[side] = lists[side]
                  /\ \E i \in DOMAIN labels[side] :
                         \E base \in {[labels[side] EXCEPT ![i] = l] : l \in {A, B}} :
                             SameBag(base, lists[side])
                  /\ Cardinality({i \in DOMAIN labels[side] : labels[side][i] = X}) = 1

\* C23: check_attributes raises ReactionError on a well-formed populated
\* reaction in which one label was replaced, in the list, in the label or
\* in the species, by a label that occurs nowhere else.
C23_SingleCorruptionRaises ==
    (pc = "attributes checked" /\ SingleCorruption(args)) => exc = "ReactionError"

\* the reactant B of A + B was renamed X in r_species only
C23_Witness ==
    /\ pc = "attributes checked"
    /\ SingleCorruption(args)
    /\ args.reactants = <<A, B>>
    /\ Labels(args.r_species) = <<A, X>>
    /\ args.label = Label(<<A, B>>, <<B>>)
    /\ exc = "ReactionError"

\* C29: when check_attributes returns on a populated reaction, the tokens
\* of each side of the label, the list and the labels of the species are
\* the same as multisets.
C29_AcceptedMeansSameMultisets ==
    (pc = "attributes checked" /\ exc = "none" /\ Populated(args)) =>
        /\ SameBag(SideTokens(self)[1], self.reactants)
        /\ SameBag(self.reactants, Labels(self.r_species))
        /\ SameBag(SideTokens(self)[2], self.products)
        /\ SameBag(self.products, Labels(self.p_species))

---------------------------------------------------------------------------
(* Claims on the atom map *)

\* C18: between two assignments the alignment service is called at most
\* once, and every read after the first call returns what that call
\* returned, also when it returned None.
C18_AtomMapComputedOnce ==
    /\ args.calls <= 1
    /\ (pc = "read" /\ args.first /= NotComputed) => ret = args.first

\* a species of the reaction has no stored geometry
LacksGeometry(obj) ==
    \/ \E i \in DOMAIN obj.r_species : get_xyz(obj.r_species[i], FALSE) = NoneXyz
    \/ \E i \in DOMAIN obj.p_species : get_xyz(obj.p_species[i], FALSE) = NoneXyz

\* C19: a read of atom_map with no map cached and a species without
\* geometry returns None, does not call the alignment service, raises
\* nothing and changes no field; the service is called only for a reaction
\* that has reactant species and product species, all with a geometry.
C19_AtomMapPrecondition ==
    [][args'.reads = args.reads + 1 =>
          /\ (self._atom_map = NoneMap /\ LacksGeometry(self))
                => /\ ret' = NoneMap
                   /\ args'.calls = args.calls
                   /\ exc' = "none"
                   /\ self' = self
          /\ args'.calls = args.calls + 1
                => /\ Len(self.r_species) > 0
                   /\ Len(self.p_species) > 0
                   /\ ~LacksGeometry(self)]_vars

\* the atoms of the reactant well: those of the species of every token of
\* the label's reactants, 0 when a token has no species with a geometry
RECURSIVE WellAtoms(_, _)
WellAtoms(labels, species) ==
    IF Len(labels) = 0 THEN 0
    ELSE Len(Geometry(WithLabel(species, labels[1]))) + WellAtoms(Tail(labels), species)

ReactantWellAtoms(obj) ==
    IF \A i \in DOMAIN obj.reactants :
           \E j \in DOMAIN obj.r_species : /\ obj.r_species[j].label = obj.reactants[i]
                                           /\ HasGeometry(obj.r_species[j])
    THEN WellAtoms(obj.reactants, obj.r_species)
    ELSE 0

\* C20: an atom map that is present has the length N of the reactant well
\* and is a permutation of 0 .. N - 1.
C20_AtomMapShape ==
    self._atom_map /= NoneMap => self._atom_map \in Orderings(ReactantWellAtoms(self))

\* the alignment service rejects the structures of the reaction
Rejected(obj) ==
    alignment_service(fragments(obj.r_species), fragments(obj.p_species))
        = {ValidationFailure}

\* C21: when the alignment service rejects the structures, get_atom_map
\* returns None, raises nothing, logs one warning, does not call the
\* alignment step and changes no attribute of the reaction.
C21_ValidationFailureIsRecoverable ==
    [][((pc' = "mapped" \/ args'.calls = args.calls + 1) /\ Rejected(self))
          => /\ ret' = NoneMap
             /\ exc' = "none"
             /\ Cardinality({i \in DOMAIN log' : log'[i][1] = "warning"}) = 1
             /\ ~args'.aligned
             /\ self' = self]_vars

\* get_atom_map was called on A <=> B with one and two hydrogens
C21_Witness ==
    /\ pc = "mapped"
    /\ Len(self.r_species) = 1 /\ Len(self.p_species) = 1
    /\ Rejected(self)
    /\ ret = NoneMap
    /\ log = << <<"warning", "atom map">> >>

---------------------------------------------------------------------------
(* Claims on the errors of the construction *)

\* the constructor was given no label, no RMG reaction, and not both lists
Undetermined(a) ==
    /\ ~Truthy(a.label)
    /\ ~a.rmg_reaction.present
    /\ (a.reactants = NoneList \/ a.products = NoneList)

\* C25: a construction with an empty label, no RMG reaction and reactants
\* or products not given ends with InputError, with arguments as with a
\* dictionary, and no constructed reaction has reactants or products None.
C25_UndeterminedSidesRaise ==
    pc = "constructed" =>
        /\ Undetermined(args) => exc = "InputError"
        /\ exc = "none" => self.reactants /= NoneList /\ self.products /= NoneList

\* a dictionary with reactants and without label and products
C25_Witness ==
    /\ pc = "constructed"
    /\ args.reaction_dict
    /\ Undetermined(args)
    /\ args.reactants = <<A>>
    /\ exc = "InputError"

---------------------------------------------------------------------------
(* The parsing of a label: the constructor is called with a label alone,   *)
(* a label being a sequence of pieces: a species label, the delimiters     *)
(* ' + ' and ' <=> ', and a '+' without spaces.                            *)

\* the largest number of pieces of a label
MaxPieces == 7

LabelPieces == {A, plus, <<"+">>, arrow}

RECURSIVE LabelsOfPieces(_)
LabelsOfPieces(n) ==
    IF n = 0 THEN {<<>>}
    ELSE LET shorter == LabelsOfPieces(n - 1)
         IN  shorter \cup {l \o piece : l \in shorter, piece \in LabelPieces}

ParseInit ==
    /\ \E label \in LabelsOfPieces(MaxPieces) \ {<<>>} :
          args = DirectArgs(label, NoneList, NoneList, NoneReaction, NoneInt, <<>>)
    /\ self = NoObject
    /\ self2 = NoObject
    /\ exc = "none"
    /\ log = <<>>
    /\ ret = FALSE
    /\ pc = "start"

ParseNext == Construct

ParseSpec == ParseInit /\ [][ParseNext]_vars

---------------------------------------------------------------------------
(* Claims on the parsing of a label *)

\* C26: the construction from a label that has not exactly one ' <=> ',
\* none or two and more, ends with the error of a label without arrow
\* (ReactionError).
C26_ArrowCount ==
    (pc = "constructed" /\ Count(args.label, arrow) /= 1) => exc = "ReactionError"

\* a '+' of the label has no space on one of its sides
BadPlus(label) ==
    \E i \in DOMAIN label :
        /\ label[i] = "+"
        /\ ~(i > 1 /\ i < Len(label) /\ label[i - 1] = " " /\ label[i + 1] = " ")

\* C27: the construction from a label with a '+' that is not written
\* ' + ' ends with ReactionError, and no constructed reaction has a
\* reactant or a product with a '+' in it.
C27_PlusSpacing ==
    pc = "constructed" =>
        /\ BadPlus(args.label) => exc = "ReactionError"
        /\ exc = "none" =>
               \A t \in Range(self.reactants) \cup Range(self.products) : "+" \notin Range(t)

\* C28: no constructed reaction has an empty string among its reactants or
\* products.
C28_NoEmptyToken ==
    (pc = "constructed" /\ exc = "none") =>
        <<>> \notin Range(self.reactants) \cup Range(self.products)

---------------------------------------------------------------------------
(* The count of a species in a well: get_species_count on the reactions    *)
(* whose label is made of tokens without ' + ' and ' <=> ' in them.        *)

\* the tokens of the labels: 'A', 'B', 'AB' and 'A B'
CountTokens == {A, B, A \o B, A \o <<" ">> \o B}

CountLists == UNION {[1..n -> CountTokens] : n \in 1..MaxSpecies}

CountInit ==
    /\ \E reactants \in CountLists, products \in CountLists,
          label \in CountTokens, well \in {0, 1} :
          /\ self = ReactionOf(reactants, products, <<>>, <<>>, 0)
          /\ args = [species |-> Spc(label, <<"H">>), well |-> well]
    /\ self2 = NoObject
    /\ exc = "none"
    /\ log = <<>>
    /\ ret = 0
    /\ pc = "start"

GetSpeciesCount ==
    /\ pc = "start"
    /\ ret' = get_species_count(self, args.species, args.well)
    /\ pc' = "counted"
    /\ UNCHANGED <<args, self, self2, exc, log>>

CountNext == GetSpeciesCount

CountSpec == CountInit /\ [][CountNext]_vars

\* the number of the tokens of the requested side that equal the label
TokensEqual(obj, label, well) ==
    The({Cardinality({i \in DOMAIN side : side[i] = label})
         : side \in {IF well = 0 THEN obj.reactants ELSE obj.products}})

\* C30: get_species_count returns the number of the tokens of the
\* requested side of the label that equal the label of the species.
C30_CountIsTokenCount ==
    pc = "counted" => ret = TokensEqual(self, args.species.label, args.well)

---------------------------------------------------------------------------
(* The persisted record: as_dict of a reaction, and the reaction built     *)
(* from the dictionary with ARCReaction(reaction_dict=...).                *)

\* None where a string is expected
NoneStr == <<"None">>

\* str.lower() of one character of the names of the TS methods
Lower(c) ==
    CASE c = "A" -> "a"
      [] c = "G" -> "g"
      [] c = "C" -> "c"
      [] c = "N" -> "n"
      [] OTHER -> c

\* [tsm.lower() for tsm in ts_methods] (lines 130, 229)
lower_all(ts_methods) ==
    [i \in DOMAIN ts_methods |->
        [j \in DOMAIN ts_methods[i] |-> Lower(ts_methods[i][j])]]

\* the attributes of a reaction that the objects above do not carry
\* (lines 101-108, 116, 129-132)
persisted(index, family, own_reverse, description, ts_methods, ts_label, scan, map) ==
    [index |-> index, family |-> family, family_own_reverse |-> own_reverse,
     long_kinetic_description |-> description,
     ts_methods |-> ts_methods, ts_label |-> ts_label,
     preserve_param_in_scan |-> scan,
     _atom_map |-> map]

\* as_dict (lines 164-190).  A key the code leaves out has the value that
\* from_dict takes for an absent key; 'rmg_reaction' is never written, the
\* test of line 181 looking for the key in the dictionary being filled.
\* The entries of 'r_species', 'p_species' and 'ts_species' are the
\* dictionaries of the species.
as_dict(obj) ==
    [reaction_dict |-> TRUE,
     label |-> obj.label, index |-> obj.index, multiplicity |-> obj.multiplicity,
     charge |-> obj.charge, reactants |-> obj.reactants, products |-> obj.products,
     r_species |-> obj.r_species, p_species |-> obj.p_species,
     ts_species |-> obj.ts_species, atom_map |-> obj._atom_map,
     preserve_param_in_scan |-> obj.preserve_param_in_scan,
     rmg_reaction |-> NoneReaction,
     family |-> obj.family, family_own_reverse |-> obj.family_own_reverse,
     long_kinetic_description |-> obj.long_kinetic_description,
     ts_methods |-> obj.ts_methods, ts_xyz_guess |-> obj.ts_xyz_guess,
     ts_label |-> obj.ts_label]

\* ARCReaction(reaction_dict=d): __init__ (lines 82-138) with from_dict
\* (lines 192-233), the attributes of lines 196, 202-203, 219-221 and
\* 225-233 included
init_from_dict(d) ==
    The({ IF r.exc /= "none" THEN [self |-> r.self, exc |-> r.exc]
          ELSE [self |-> r.self @@ persisted(d.index, d.family, d.family_own_reverse,
                                             d.long_kinetic_description,
                                             lower_all(d.ts_methods), d.ts_label,
                                             d.preserve_param_in_scan, d.atom_map),
                exc |-> "none"]
          : r \in {init(d)} })

\* the arguments of the constructor of the first reaction: a label or an
\* RMG reaction
PersistArgs ==
    { DirectArgs(Label(<<A>>, <<B>>), NoneList, NoneList, NoneReaction, NoneInt, <<>>),
      DirectArgs(Label(<<A, A>>, <<B>>), NoneList, NoneList, NoneReaction, NoneInt,
                 << <<"H">> >>),
      DirectArgs(<<>>, NoneList, NoneList, Rxn(<<SpcA>>, <<SpcA>>), NoneInt, <<>>),
      DirectArgs(<<>>, NoneList, NoneList, Rxn(<<SpcB>>, <<SpcB>>), NoneInt, <<>>) }

\* the ts_methods argument of the constructor
PersistMethods == { << <<"G", "C", "N">> >>, << <<"a">>, <<"g", "c", "n">> >>, <<>> }

\* a reaction after its construction and the assignment of its attributes
PersistInit ==
    /\ \E a \in PersistArgs, ts_species \in {<<>>, <<SpcA>>},
          multiplicity \in {NoneInt, 2}, index \in {NoneInt, 1},
          family \in {NoneStr, <<"H">>}, family_own_reverse \in {0, 1},
          long_kinetic_description \in {<<>>, <<"k">>},
          ts_methods \in PersistMethods, ts_label \in {NoneStr, <<"T", "S">>},
          preserve_param_in_scan \in {NoneMap, <<1, 2>>},
          atom_map_value \in {NoneMap, <<0>>} :
          /\ args = a
          /\ \E r \in {init(a)} :
                /\ r.exc = "none"
                /\ self = [r.self EXCEPT !.ts_species = ts_species,
                                         !.multiplicity = multiplicity]
                             @@ persisted(index, family, family_own_reverse,
                                          long_kinetic_description,
                                          lower_all(ts_methods), ts_label,
                                          preserve_param_in_scan, atom_map_value)
    /\ self2 = NoObject
    /\ exc = "none"
    /\ log = <<>>
    /\ ret = FALSE
    /\ pc = "constructed"

\* self.as_dict()
AsDict ==
    /\ pc = "constructed"
    /\ ret' = as_dict(self)
    /\ pc' = "dumped"
    /\ UNCHANGED <<args, self, self2, exc, log>>

\* ARCReaction(reaction_dict=...) on the dictionary
Reload ==
    /\ pc = "dumped"
    /\ \E r \in {init_from_dict(ret)} :
           /\ self2' = r.self
           /\ exc' = r.exc
    /\ pc' = "reloaded"
    /\ UNCHANGED <<args, self, ret, log>>

PersistNext == AsDict \/ Reload

PersistSpec == PersistInit /\ [][PersistNext]_vars

\* the attributes a persisted record is to give back
PersistedFields ==
    {"label", "index", "multiplicity", "charge", "reactants", "products", "family",
     "family_own_reverse", "long_kinetic_description", "ts_methods", "ts_xyz_guess",
     "ts_label", "_atom_map", "preserve_param_in_scan"}

\* C24: the reaction built from self.as_dict() exists and has the label,
\* index, multiplicity, charge, reactants, products, family,
\* family_own_reverse, long_kinetic_description, ts_methods, ts_xyz_guess,
\* ts_label, atom map and preserve_param_in_scan of self.
C24_RecordRoundTrip ==
    pc = "reloaded" =>
        /\ exc = "none"
        /\ \A f \in PersistedFields : self2[f] = self[f]

===========================================================================
